---------------------------- MODULE Spec2Model ----------------------------
(***************************************************************************)
(* Model of EIATracker (src/app.py): the crediting calculator              *)
(* (calculate_credited_return, calculate_account_value), the index quote   *)
(* (fetch_index_return), the report (generate_pdf_report) and the routes   *)
(* get_index_return, api_calculate and api_report.                         *)
(*                                                                         *)
(* Python values are tagged records.  Numbers are exact rationals n/d in   *)
(* lowest terms (d > 0): the program's binary floats are idealised as the  *)
(* decimal values they stand for, and round(x, k) is round-half-to-even on *)
(* the exact value.  The inputs below produce no value lying exactly       *)
(* halfway between two roundings, where a binary float could fall on       *)
(* either side.                                                            *)
(***************************************************************************)
EXTENDS Integers, Sequences, FiniteSets, TLC

(***************************************************************************)
(* Bounds of the model.                                                    *)
(***************************************************************************)
MaxAllocs == 4

(***************************************************************************)
(* Program constants.                                                      *)
(***************************************************************************)
PctDecimals == 4
MoneyDecimals == 2

(***************************************************************************)
(* Python values.                                                          *)
(***************************************************************************)
PyVal(k, n, d, s) == [k |-> k, n |-> n, d |-> d, s |-> s]

\* A dictionary key that is not present (seen only through Get).
Absent == PyVal("absent", 0, 1, "")
None == PyVal("none", 0, 1, "")
PyTrue == PyVal("bool", 1, 1, "")
PyFalse == PyVal("bool", 0, 1, "")
Str(s) == PyVal("str", 0, 1, s)

Abs(a) == IF a < 0 THEN -a ELSE a

RECURSIVE GCD(_, _)
GCD(a, b) == IF b = 0 THEN a ELSE GCD(b, a % b)

\* The number n/d (d > 0) in lowest terms.
Q(n, d) ==
    LET g == GCD(Abs(n), d)
    IN  IF n = 0 THEN PyVal("num", 0, 1, "") ELSE PyVal("num", n \div g, d \div g, "")

Zero == Q(0, 1)
Hundred == Q(100, 1)
One == Q(1, 1)

RAdd(a, b) ==
    LET g == GCD(a.d, b.d)
    IN  Q(a.n * (b.d \div g) + b.n * (a.d \div g), (a.d \div g) * b.d)

RNeg(a) == Q(-a.n, a.d)
RSub(a, b) == RAdd(a, RNeg(b))

RMul(a, b) ==
    LET g1 == GCD(Abs(a.n), b.d)
        g2 == GCD(Abs(b.n), a.d)
    IN  IF a.n = 0 \/ b.n = 0 THEN Zero
        ELSE Q((a.n \div g1) * (b.n \div g2), (a.d \div g2) * (b.d \div g1))

\* a / b for b # 0.
RDiv(a, b) ==
    IF b.n > 0 THEN RMul(a, Q(b.d, b.n)) ELSE RMul(a, Q(-b.d, -b.n))

RSign(a) == IF a.n > 0 THEN 1 ELSE IF a.n < 0 THEN -1 ELSE 0
RLt(a, b) == RSign(RSub(a, b)) < 0
RLe(a, b) == RSign(RSub(a, b)) <= 0
RMin(a, b) == IF RLt(b, a) THEN b ELSE a
RMax(a, b) == IF RLt(a, b) THEN b ELSE a
RAbs(a) == IF a.n < 0 THEN RNeg(a) ELSE a

RECURSIVE Pow10(_)
Pow10(k) == IF k = 0 THEN 1 ELSE 10 * Pow10(k - 1)

\* Long division: q + r/d shifted left by k decimal digits, as <<integer, remainder>>.
RECURSIVE Shift(_, _, _, _)
Shift(q, r, d, k) ==
    IF k = 0 THEN <<q, r>>
    ELSE Shift(q * 10 + ((r * 10) \div d), (r * 10) % d, d, k - 1)

HalfEven(q, r, d) ==
    IF 2 * r > d \/ (2 * r = d /\ q % 2 = 1) THEN q + 1 ELSE q

\* Python's round(x, k) on a number.
Round(x, k) ==
    LET a == Abs(x.n)
        s == Shift(a \div x.d, a % x.d, x.d, k)
        m == HalfEven(s[1], s[2], x.d)
    IN  Q(RSign(x) * m, Pow10(k))

(***************************************************************************)
(* calculate_credited_return (src/app.py, lines 114-127).                  *)
(***************************************************************************)
\* A variant testing "x is not None and x >= 0": a zero rate takes its step.
AppliesFromZero(rate) == rate # None /\ RSign(rate) >= 0

\* "x is not None and x > 0"
Applies(rate) == rate # None /\ RSign(rate) > 0

\* if index_return is None or index_return <= 0: return 0.0
NoGain(index_return) == index_return = None \/ RSign(index_return) <= 0

\* credited -= spread_rate
SpreadStep(credited, spread_rate) ==
    IF Applies(spread_rate) THEN RSub(credited, spread_rate) ELSE credited

\* if credited <= 0: return 0.0   (inside the spread branch)
SpreadExhausted(credited, spread_rate) ==
    Applies(spread_rate) /\ RSign(credited) <= 0

\* A variant in which the participation rate divides the gain.
ParStepDivides(credited, par_rate) ==
    IF Applies(par_rate) THEN RDiv(credited, RDiv(par_rate, Hundred)) ELSE credited

\* credited *= (par_rate / 100.0)
ParStep(credited, par_rate) ==
    IF Applies(par_rate) THEN RMul(credited, RDiv(par_rate, Hundred)) ELSE credited

\* A variant with max() written for min() in the cap step.
CapStepMax(credited, cap_rate) ==
    IF Applies(cap_rate) THEN RMax(credited, cap_rate) ELSE credited

\* credited = min(credited, cap_rate)
CapStep(credited, cap_rate) ==
    IF Applies(cap_rate) THEN RMin(credited, cap_rate) ELSE credited

\* return max(round(credited, 4), 0.0)
FloorStep(credited) == RMax(Round(credited, PctDecimals), Zero)

\* The value of the local `credited` when the cap step is reached.
PreCap(index_return, par_rate, spread_rate) ==
    ParStep(SpreadStep(index_return, spread_rate), par_rate)

\* Variants of the function, each differing from the code by one slip.
\* The cap is applied to the raw gain, before participation.
CapBeforePar(index_return, cap_rate, par_rate, spread_rate) ==
    IF NoGain(index_return) THEN Zero
    ELSE IF SpreadExhausted(SpreadStep(index_return, spread_rate), spread_rate) THEN Zero
    ELSE FloorStep(ParStep(CapStep(SpreadStep(index_return, spread_rate), cap_rate), par_rate))

\* The spread is deducted after participation.
SpreadAfterPar(index_return, cap_rate, par_rate, spread_rate) ==
    IF NoGain(index_return) THEN Zero
    ELSE LET c == SpreadStep(ParStep(index_return, par_rate), spread_rate)
         IN  IF SpreadExhausted(c, spread_rate) THEN Zero
             ELSE FloorStep(CapStep(c, cap_rate))

\* A loss is passed through by the first return.
LossPassedThrough(index_return, cap_rate, par_rate, spread_rate) ==
    IF index_return = None THEN Zero
    ELSE IF RSign(index_return) <= 0 THEN Round(index_return, PctDecimals)
    ELSE IF SpreadExhausted(SpreadStep(index_return, spread_rate), spread_rate) THEN Zero
    ELSE FloorStep(CapStep(PreCap(index_return, par_rate, spread_rate), cap_rate))

\* The pipeline without any floor.
Unfloored(index_return, cap_rate, par_rate, spread_rate) ==
    IF index_return = None THEN Zero
    ELSE Round(CapStep(PreCap(index_return, par_rate, spread_rate), cap_rate), PctDecimals)

calculate_credited_return(index_return, cap_rate, par_rate, spread_rate) ==
    IF NoGain(index_return) THEN Zero
    ELSE IF SpreadExhausted(SpreadStep(index_return, spread_rate), spread_rate) THEN Zero
    ELSE FloorStep(CapStep(PreCap(index_return, par_rate, spread_rate), cap_rate))

(***************************************************************************)
(* calculate_account_value (src/app.py, lines 130-160).                    *)
(* An allocation is a dictionary: a record over AllocKeys whose value is   *)
(* Absent for a key the dictionary does not hold.                          *)
(***************************************************************************)
AllocKeys == {"name", "allocation_pct", "is_fixed", "index_return",
              "cap_rate", "par_rate", "spread_rate", "fixed_rate"}

\* dict.get(key, default)
Get(alloc, key, default) == IF alloc[key] = Absent THEN default ELSE alloc[key]

\* Python truth value of a value.
Truthy(v) ==
    CASE v.k = "none" -> FALSE
      [] v.k = "bool" -> v.n = 1
      [] v.k = "num" -> v.n # 0
      [] v.k = "str" -> v.s # ""
      [] OTHER -> FALSE

\* pct = alloc.get("allocation_pct", 0)
Pct(alloc) == Get(alloc, "allocation_pct", Zero)

\* pct / 100.0 raises TypeError when pct is None.
RaisesTypeError(alloc) == Pct(alloc) = None

\* alloc_amount = current_value * (pct / 100.0)
AllocAmount(cv, alloc) == RMul(cv, RDiv(Pct(alloc), Hundred))

\* alloc.get("fixed_rate", 0.0) or 0.0
FixedRate(alloc) ==
    LET f == Get(alloc, "fixed_rate", Zero)
    IN  IF Truthy(f) THEN f ELSE Zero

\* A fixed allocation is sent through the index pipeline too.
CreditedFixedInPipeline(alloc) ==
    calculate_credited_return(
        IF Truthy(Get(alloc, "is_fixed", None))
        THEN FixedRate(alloc) ELSE Get(alloc, "index_return", Zero),
        Get(alloc, "cap_rate", None),
        Get(alloc, "par_rate", None),
        Get(alloc, "spread_rate", None))

\* The if/else choosing the credited return of one allocation.
Credited(alloc) ==
    IF Truthy(Get(alloc, "is_fixed", None))
    THEN FixedRate(alloc)
    ELSE calculate_credited_return(
             Get(alloc, "index_return", Zero),
             Get(alloc, "cap_rate", None),
             Get(alloc, "par_rate", None),
             Get(alloc, "spread_rate", None))

\* new_amount = alloc_amount * (1 + credited / 100.0)
NewAmount(cv, alloc) ==
    RMul(AllocAmount(cv, alloc), RAdd(One, RDiv(Credited(alloc), Hundred)))

\* Each term is rounded to cents before it is added.
AccumulateRounded(total, new_amount) == RAdd(total, Round(new_amount, MoneyDecimals))

\* total_new += new_amount
Accumulate(total, new_amount) == RAdd(total, new_amount)

\* The dictionary appended to results.
AllocationResult(cv, alloc) ==
    [name |-> Get(alloc, "name", Str("")),
     allocation_pct |-> Pct(alloc),
     alloc_amount |-> Round(AllocAmount(cv, alloc), MoneyDecimals),
     index_return |-> IF ~ Truthy(Get(alloc, "is_fixed", None))
                      THEN Get(alloc, "index_return", None) ELSE None,
     credited_return |-> Round(Credited(alloc), PctDecimals),
     new_amount |-> Round(NewAmount(cv, alloc), MoneyDecimals),
     cap_rate |-> Get(alloc, "cap_rate", None),
     par_rate |-> Get(alloc, "par_rate", None),
     spread_rate |-> Get(alloc, "spread_rate", None),
     fixed_rate |-> Get(alloc, "fixed_rate", None),
     is_fixed |-> Get(alloc, "is_fixed", PyFalse)]

\* An allocation that adds nothing is left out of the results.
AppendUnlessZero(rs, r) == IF r.new_amount = Zero THEN rs ELSE Append(rs, r)

\* results.append({...})
AppendResult(rs, r) == Append(rs, r)

\* The for loop from allocation i on; `amounts` records the local new_amount
\* of each iteration.
RECURSIVE Loop(_, _, _, _, _, _)
Loop(cv, allocs, i, total, rs, amounts) ==
    IF i > Len(allocs)
    THEN [outcome |-> "returned", total_new |-> total,
          results |-> rs, new_amounts |-> amounts]
    ELSE IF RaisesTypeError(allocs[i])
    THEN [outcome |-> "TypeError", total_new |-> total,
          results |-> rs, new_amounts |-> amounts]
    ELSE Loop(cv, allocs, i + 1,
              Accumulate(total, NewAmount(cv, allocs[i])),
              AppendResult(rs, AllocationResult(cv, allocs[i])),
              Append(amounts, NewAmount(cv, allocs[i])))

\* The locals at the return (or at the raise), with the returned pair
\* (new_value, results) when the function returns.
calculate_account_value(cv, allocs) ==
    LET l == Loop(cv, allocs, 1, Zero, <<>>, <<>>)
    IN  [outcome |-> l.outcome,
         total_new |-> l.total_new,
         new_amounts |-> l.new_amounts,
         new_value |-> IF l.outcome = "returned"
                       THEN Round(l.total_new, MoneyDecimals) ELSE None,
         results |-> IF l.outcome = "returned" THEN l.results ELSE <<>>]

(***************************************************************************)
(* Dates.  A "YYYY-MM-DD" string is a str value carrying its three numbers *)
(* in ymd; a datetime is the ordinal of its day, counted from 2022-01-01,  *)
(* so that adding a timedelta of days adds to the ordinal.                 *)
(***************************************************************************)
SearchDays == 10
EndDays == 1
RecentDays == 5

DateStr(y, m, d) ==
    [k |-> "str", n |-> 0, d |-> 1, s |-> "YYYY-MM-DD", ymd |-> <<y, m, d>>]

Years == 2022..2024

IsLeap(y) == (y % 4 = 0 /\ y % 100 # 0) \/ y % 400 = 0

DaysInMonth(y, m) ==
    CASE m \in {4, 6, 9, 11} -> 30
      [] m = 2 -> IF IsLeap(y) THEN 29 ELSE 28
      [] OTHER -> 31

RECURSIVE DaysBeforeMonth(_, _)
DaysBeforeMonth(y, m) ==
    IF m = 1 THEN 0 ELSE DaysBeforeMonth(y, m - 1) + DaysInMonth(y, m - 1)

RECURSIVE DaysBeforeYear(_)
DaysBeforeYear(y) ==
    IF y = 2022 THEN 0
    ELSE DaysBeforeYear(y - 1) + (IF IsLeap(y - 1) THEN 366 ELSE 365)

ToOrdinal(y, m, d) == DaysBeforeYear(y) + DaysBeforeMonth(y, m) + d

ValidDate(y, m, d) ==
    y \in Years /\ m \in 1..12 /\ d \in 1..DaysInMonth(y, m)

\* Whether datetime.strptime(s, "%Y-%m-%d") returns (it raises ValueError
\* otherwise).
Parses(s) ==
    /\ "ymd" \in DOMAIN s
    /\ ValidDate(s.ymd[1], s.ymd[2], s.ymd[3])

\* datetime.strptime(s, "%Y-%m-%d")
strptime(s) == ToOrdinal(s.ymd[1], s.ymd[2], s.ymd[3])

\* dt.strftime("%Y-%m-%d")
strftime(dt) ==
    LET ymd == CHOOSE x \in Years \X (1..12) \X (1..31) :
                   ValidDate(x[1], x[2], x[3]) /\ ToOrdinal(x[1], x[2], x[3]) = dt
    IN  DateStr(ymd[1], ymd[2], ymd[3])

(***************************************************************************)
(* The market-data provider (yfinance).  Its data is the set of trading    *)
(* days it holds; a query returns the rows of a window of dates in         *)
(* ascending order, a row being a day and its closing price.               *)
(***************************************************************************)
Day(y, m, d) == ToOrdinal(y, m, d)

\* The day the request is handled.
Today == Day(2023, 3, 3)

ClosePrice(day) ==
    CASE day = Day(2022, 12, 30) -> Q(383950, 100)
      [] day = Day(2023, 1, 4) -> Q(385297, 100)
      [] day = Day(2023, 1, 5) -> Q(380810, 100)
      [] day = Day(2023, 1, 13) -> Q(399909, 100)
      [] day = Day(2023, 1, 17) -> Q(399097, 100)
      [] OTHER -> Q(395139, 100)

RECURSIVE SortedRows(_)
SortedRows(days) ==
    IF days = {} THEN <<>>
    ELSE LET first == CHOOSE x \in days : \A y \in days : x <= y
         IN  <<[Date |-> first, Close |-> ClosePrice(first)]>>
                 \o SortedRows(days \ {first})

\* stock.history(start=..., end=...): the rows dated from start up to, not
\* including, end.
History(mkt, start, end) ==
    SortedRows({x \in mkt : strptime(start) <= x /\ x < strptime(end)})

\* stock.history(period="5d"): the rows of the latest 5 days.
RecentHistory(mkt) ==
    SortedRows({x \in mkt : Today - RecentDays < x /\ x <= Today})

(***************************************************************************)
(* fetch_index_return (src/app.py, lines 84-109) and the route             *)
(* get_index_return (lines 619-632).                                       *)
(***************************************************************************)
StartMsg == "No market data available for the start date"
RecentMsg == "No recent market data available"
RequiredMsg == "ticker and start_date required"
FetchFailedMsg == "Failed to fetch"

\* search_start = start_dt - timedelta(days=10)
SearchStart(start_dt) == start_dt - SearchDays

\* A variant whose window ends on start_dt, not the day after.
WindowEndOnStart(start_dt) == start_dt

\* start_dt + timedelta(days=1)
WindowEnd(start_dt) == start_dt + EndDays

\* hist_start = stock.history(start=search_start..., end=(start_dt + 1 day)...)
StartWindow(mkt, start_dt) ==
    History(mkt, strftime(SearchStart(start_dt)), strftime(WindowEnd(start_dt)))

\* hist.iloc[-1]
LastRow(rows) == rows[Len(rows)]

\* index_return = ((end_price - start_price) / start_price) * 100
IndexReturn(sp, ep) == RMul(RDiv(RSub(ep, sp), sp), Hundred)

\* The dictionary fetch_index_return returns.
Quote(ticker, sp, sa, rows) ==
    [ticker |-> ticker,
     start_date |-> sa,
     start_price |-> Round(sp, MoneyDecimals),
     end_date |-> strftime(LastRow(rows).Date),
     end_price |-> Round(LastRow(rows).Close, MoneyDecimals),
     index_return |-> Round(IndexReturn(sp, LastRow(rows).Close), PctDecimals)]

\* data.get(key)
JsonGet(d, key) == IF d[key] = Absent THEN None ELSE d[key]

\* A variant rejecting only a missing ticker.
TickerRequired(d) == ~ Truthy(JsonGet(d, "ticker"))

\* if not ticker or not start_date
FieldsRequired(d) ==
    ~ Truthy(JsonGet(d, "ticker")) \/ ~ Truthy(JsonGet(d, "start_date"))

(***************************************************************************)
(* api_calculate.                                                          *)
(***************************************************************************)
CurrentValueMsg == "Current value must be > 0"

\* The response to an exception no handler of the route catches.
ServerErrorMsg == "Internal Server Error"

\* A JSON array.
PyList(items) == [k |-> "list", n |-> 0, d |-> 1, s |-> "", items |-> items]

\* float(x) raises TypeError when x is None.
FloatRaises(x) == x = None

\* if current_value <= 0
Rejects(cv) == RLe(cv, Zero)

\* round(((new_value - current_value) / current_value) * 100, 4)
TotalReturnPct(cv, nv) ==
    Round(RMul(RDiv(RSub(nv, cv), cv), Hundred), PctDecimals)

\* The JSON of the 200 response, r being what calculate_account_value returned.
CalculateBody(cv, r) ==
    [current_value |-> cv,
     new_value |-> r.new_value,
     total_return_pct |-> TotalReturnPct(cv, r.new_value),
     allocations |-> r.results]

(***************************************************************************)
(* generate_pdf_report and api_report.  elements is the list of flowables  *)
(* of the document, named by what they show; table_data is the list of     *)
(* the allocation table's rows, each a list of five cells.                 *)
(***************************************************************************)
\* The flowables appended before the loop over the allocations, and after it.
BeforeTable == <<"logo", "bar", "title", "info", "cards", "section">>
AfterTable == <<"table", "methodology", "disclosure", "footer">>

header_row ==
    <<Str("INDEX / STRATEGY"), Str("WEIGHT"), Str("INDEX RETURN"),
      Str("CREDITED"), Str("EST. VALUE")>>

\* total_return = (...) if current_value > 0 else 0
TotalReturn(cv, nv) ==
    IF RLt(Zero, cv) THEN RMul(RDiv(RSub(nv, cv), cv), Hundred) ELSE Zero

\* The key whose subscript raises KeyError in the loop's body, "" when none
\* does: alloc["is_fixed"], alloc['name'] (read for an indexed allocation
\* only), alloc['allocation_pct'], alloc['new_amount'].
MissingKey(alloc) ==
    IF alloc.is_fixed = Absent THEN "is_fixed"
    ELSE IF ~ Truthy(alloc.is_fixed) /\ alloc.name = Absent THEN "name"
    ELSE IF alloc.allocation_pct = Absent THEN "allocation_pct"
    ELSE IF alloc.new_amount = Absent THEN "new_amount"
    ELSE ""

\* The row of one allocation, its numbers formatted as the cells show them.
Row(alloc) ==
    LET idx_ret == LET v == Get(alloc, "index_return", Zero)
                   IN  IF Truthy(v) THEN v ELSE Zero
        cr == Get(alloc, "credited_return", Zero)
    IN  <<IF Truthy(alloc.is_fixed) THEN Str("Fixed Interest") ELSE alloc.name,
          Round(alloc.allocation_pct, 0),
          IF Truthy(alloc.is_fixed) THEN Str("--") ELSE Round(idx_ret, 2),
          Round(cr, 2),
          Round(alloc.new_amount, 2)>>

TotalRow(cv, nv) ==
    <<Str("TOTAL"), Hundred, Str(""), Round(TotalReturn(cv, nv), 2), Round(nv, 2)>>

\* for alloc in allocations: ... table_data.append(row)
RECURSIVE TableLoop(_, _, _)
TableLoop(allocs, i, rows) ==
    IF i > Len(allocs) THEN [outcome |-> "returned", table_data |-> rows]
    ELSE IF MissingKey(allocs[i]) # ""
    THEN [outcome |-> "KeyError", table_data |-> rows]
    ELSE TableLoop(allocs, i + 1, Append(rows, Row(allocs[i])))

\* The locals at the return (after doc.build) or at the raise.
generate_pdf_report(cv, nv, allocs) ==
    LET l == TableLoop(allocs, 1, <<header_row>>)
    IN  IF l.outcome = "returned"
        THEN [outcome |-> "returned",
              elements |-> BeforeTable \o AfterTable,
              table_data |-> Append(l.table_data, TotalRow(cv, nv))]
        ELSE [outcome |-> l.outcome,
              elements |-> BeforeTable,
              table_data |-> l.table_data]

\* The PDF file sent, holding what doc.build was given.
Pdf(r) ==
    [k |-> "pdf", n |-> 0, d |-> 1, s |-> "",
     elements |-> r.elements, table_data |-> r.table_data]

(***************************************************************************)
(* Inputs.                                                                 *)
(***************************************************************************)
IndexReturns == {None, Q(-2, 1), Zero, Q(3, 1), Q(17, 2), Q(33333, 10000)}
CapRates == {None, Q(-1, 1), Zero, Q(6, 1), Q(2, 1), Q(600004, 100000)}
ParRates == {None, Q(-50, 1), Zero, Q(50, 1), Hundred, Q(150, 1), Q(333, 10)}
SpreadRates == {None, Q(-1, 1), Zero, One, Q(4, 1), Q(17, 2)}

Alloc(name, pct, fixed, ir, cap, par, spread, rate) ==
    [name |-> name, allocation_pct |-> pct, is_fixed |-> fixed,
     index_return |-> ir, cap_rate |-> cap, par_rate |-> par,
     spread_rate |-> spread, fixed_rate |-> rate]

\* One allocation with every field absent, null or set.
FieldAllocs ==
    [name : {Absent, None, Str("S&P 500")},
     allocation_pct : {Absent, None, Q(50, 1)},
     is_fixed : {Absent, None, PyFalse, PyTrue},
     index_return : {Absent, None, Q(-2, 1), Q(17, 2)},
     cap_rate : {Absent, None, Q(-1, 1), Q(6, 1)},
     par_rate : {Absent, None, Zero, Q(150, 1)},
     spread_rate : {Absent, None, Q(-1, 1), Q(10, 1)},
     fixed_rate : {Absent, None, Q(5, 2), Q(-1, 1)}]

\* The allocations that lists are made of.
CappedIndex ==
    Alloc(Str("S&P 500"), Hundred, PyFalse, Q(17, 2), Q(6, 1), Hundred, Zero, Absent)
FixedQuarter ==
    Alloc(Str("Fixed"), Q(25, 1), PyTrue, Absent, Absent, Absent, Absent, Q(17776, 10000))
SpreadOnly ==
    Alloc(Str("Spread"), Absent, Absent, Q(3, 1), Absent, Absent, Q(4, 1), Absent)
HalfPar ==
    Alloc(Absent, Q(50, 1), PyFalse, Q(17, 2), None, Q(50, 1), None, None)
ZeroWeightLoss ==
    Alloc(Str("Loss"), Zero, PyFalse, Q(-2, 1), Q(6, 1), Hundred, One, Absent)
NullWeight ==
    Alloc(Str("Null"), None, PyFalse, Q(17, 2), Absent, Absent, Absent, Absent)

ListAllocs == {CappedIndex, FixedQuarter, SpreadOnly, HalfPar, ZeroWeightLoss, NullWeight}

RECURSIVE Lists(_)
Lists(n) ==
    IF n = 0 THEN {<<>>}
    ELSE Lists(n - 1) \cup
         {Append(l, a) : l \in {x \in Lists(n - 1) : Len(x) = n - 1}, a \in ListAllocs}

CurrentValues == {Q(1000, 1), Q(100000, 1)}

\* The payloads of an index-return request and the provider's possible data.
Tickers == {Absent, None, Str(""), Str("^GSPC")}
StartDates == {Absent, None, Str(""), Str("yesterday"),
               DateStr(2023, 1, 15), DateStr(2023, 1, 13), DateStr(2023, 1, 3),
               DateStr(2023, 2, 30)}
TradingDays == {Day(2022, 12, 30), Day(2023, 1, 4), Day(2023, 1, 5),
                Day(2023, 1, 13), Day(2023, 1, 17), Day(2023, 3, 1)}

\* The payloads of a calculate request.
MaxRequestAllocs == 2
RequestValues == {Absent, None, Q(-1000, 1), Zero, Q(1000, 1), Q(30000, 1)}
RequestLists == {Absent} \cup {PyList(l) : l \in Lists(MaxRequestAllocs)}

\* The payloads of a report request: allocations as the calculate response
\* gives them, and allocations lacking a key.
ReportAlloc(name, pct, fixed, amount) ==
    [name |-> name, allocation_pct |-> pct, is_fixed |-> fixed,
     index_return |-> Q(17, 2), credited_return |-> Q(6, 1),
     fixed_rate |-> Q(3, 1), new_amount |-> amount]

ReportAllocs ==
    {ReportAlloc(Str("S&P 500"), Q(60, 1), PyFalse, Q(636, 1)),
     ReportAlloc(Str("Fixed"), Q(40, 1), PyTrue, Q(412, 1)),
     ReportAlloc(Str("S&P 500"), Q(60, 1), Absent, Q(636, 1)),
     ReportAlloc(Absent, Q(60, 1), PyFalse, Q(636, 1)),
     ReportAlloc(Absent, Q(40, 1), PyTrue, Q(412, 1)),
     ReportAlloc(Str("S&P 500"), Absent, PyFalse, Q(636, 1)),
     ReportAlloc(Str("Fixed"), Q(40, 1), PyTrue, Absent)}

RECURSIVE ReportLists(_)
ReportLists(n) ==
    IF n = 0 THEN {<<>>}
    ELSE ReportLists(n - 1) \cup
         {Append(l, a) : l \in {x \in ReportLists(n - 1) : Len(x) = n - 1},
                         a \in ReportAllocs}

ReportValues == {Absent, None, Q(1000, 1)}
ReportNewValues == {Absent, None, Q(1048, 1)}

VARIABLES op, pc,
          index_return, cap_rate, par_rate, spread_rate, credited,
          current_value, allocations,
          outcome, total_new, new_amounts, new_value, results,
          data, status, error, body,
          market, start_queries, recent_queries, hist_start, hist_end,
          start_price, start_actual, provider_error,
          elements, table_data

vars == <<op, pc, index_return, cap_rate, par_rate, spread_rate, credited,
          current_value, allocations,
          outcome, total_new, new_amounts, new_value, results,
          data, status, error, body,
          market, start_queries, recent_queries, hist_start, hist_end,
          start_price, start_actual, provider_error,
          elements, table_data>>

\* The request's JSON payload and the response: its status, its error message
\* (the exception's name for an unhandled exception) and its JSON body.
httpVars == <<data, status, error, body>>
\* The provider's data, the queries made of it, the locals of
\* fetch_index_return, and the query in which the provider raised, if any.
fetchVars == <<market, start_queries, recent_queries, hist_start, hist_end,
               start_price, start_actual, provider_error>>

NoRequest == data = None /\ status = 0 /\ error = "" /\ body = None

NoFetch ==
    /\ market = {} /\ start_queries = 0 /\ recent_queries = 0
    /\ hist_start = <<>> /\ hist_end = <<>>
    /\ start_price = None /\ start_actual = None /\ provider_error = ""

\* The locals elements and table_data of generate_pdf_report.
reportVars == <<elements, table_data>>

NoReport == elements = <<>> /\ table_data = <<>>

creditedVars == <<index_return, cap_rate, par_rate, spread_rate, credited>>
accountVars == <<current_value, allocations,
                 outcome, total_new, new_amounts, new_value, results>>

NoCreditedCall ==
    /\ index_return = None /\ cap_rate = None /\ par_rate = None
    /\ spread_rate = None /\ credited = None

NoAccountCall ==
    /\ current_value = None /\ allocations = <<>>
    /\ outcome = "none" /\ total_new = None /\ new_amounts = <<>>
    /\ new_value = None /\ results = <<>>

\* A call calculate_credited_return(index_return, cap_rate, par_rate, spread_rate).
InitCredited ==
    /\ op = "calculate_credited_return"
    /\ pc = "call"
    /\ index_return \in IndexReturns
    /\ cap_rate \in CapRates
    /\ par_rate \in ParRates
    /\ spread_rate \in SpreadRates
    /\ credited = None
    /\ NoAccountCall
    /\ NoRequest /\ NoFetch /\ NoReport

\* A call calculate_account_value(current_value, allocations).
InitAccount ==
    /\ op = "calculate_account_value"
    /\ pc = "call"
    /\ \/ current_value \in CurrentValues /\ allocations \in Lists(MaxAllocs)
       \/ current_value = Q(50000, 1) /\ allocations \in {<<a>> : a \in FieldAllocs}
    /\ outcome = "none" /\ total_new = None /\ new_amounts = <<>>
    /\ new_value = None /\ results = <<>>
    /\ NoCreditedCall
    /\ NoRequest /\ NoFetch /\ NoReport

CallCreditedReturn ==
    /\ op = "calculate_credited_return"
    /\ pc = "call"
    /\ credited' = calculate_credited_return(index_return, cap_rate, par_rate, spread_rate)
    /\ pc' = "done"
    /\ UNCHANGED <<op, index_return, cap_rate, par_rate, spread_rate>>
    /\ UNCHANGED <<accountVars, httpVars, fetchVars, reportVars>>

CallAccountValue ==
    /\ op = "calculate_account_value"
    /\ pc = "call"
    /\ LET r == calculate_account_value(current_value, allocations)
       IN  /\ outcome' = r.outcome
           /\ total_new' = r.total_new
           /\ new_amounts' = r.new_amounts
           /\ new_value' = r.new_value
           /\ results' = r.results
    /\ pc' = "done"
    /\ UNCHANGED <<op, current_value, allocations>>
    /\ UNCHANGED <<creditedVars, httpVars, fetchVars, reportVars>>

\* A request POST /api/index-return.
InitIndexReturn ==
    /\ op = "get_index_return"
    /\ pc = "call"
    /\ data \in [ticker : Tickers, start_date : StartDates]
    /\ status = 0 /\ error = "" /\ body = None
    /\ market \in SUBSET TradingDays
    /\ start_queries = 0 /\ recent_queries = 0
    /\ hist_start = <<>> /\ hist_end = <<>>
    /\ start_price = None /\ start_actual = None /\ provider_error = ""
    /\ NoCreditedCall /\ NoAccountCall /\ NoReport

Respond(code, msg, json) ==
    /\ status' = code
    /\ error' = msg
    /\ body' = json
    /\ pc' = "done"

\* get_index_return up to the first query of the provider: the check of the
\* payload and, in fetch_index_return, the parsing of start_date.
GetIndexReturn ==
    /\ op = "get_index_return"
    /\ pc = "call"
    /\ IF FieldsRequired(data)
       THEN Respond(400, RequiredMsg, None)
       ELSE IF ~ Parses(data.start_date)
       THEN Respond(500, FetchFailedMsg, None)
       ELSE pc' = "start_query" /\ UNCHANGED <<status, error, body>>
    /\ UNCHANGED <<op, data, fetchVars, creditedVars, accountVars, reportVars>>

\* The query of the start window: the provider raises, or returns rows.
StartQuery ==
    /\ op = "get_index_return"
    /\ pc = "start_query"
    /\ start_queries' = start_queries + 1
    /\ \/ /\ provider_error' = "start"
          /\ Respond(500, FetchFailedMsg, None)
          /\ UNCHANGED <<hist_start, start_price, start_actual>>
       \/ /\ hist_start' = StartWindow(market, strptime(data.start_date))
          /\ UNCHANGED provider_error
          /\ IF hist_start' = <<>>
             THEN /\ Respond(404, StartMsg, None)
                  /\ UNCHANGED <<start_price, start_actual>>
             ELSE /\ start_price' = LastRow(hist_start').Close
                  /\ start_actual' = strftime(LastRow(hist_start').Date)
                  /\ pc' = "recent_query"
                  /\ UNCHANGED <<status, error, body>>
    /\ UNCHANGED <<op, data, market, recent_queries, hist_end,
                   creditedVars, accountVars, reportVars>>

\* The query of the recent data, and the rest of the request.
RecentQuery ==
    /\ op = "get_index_return"
    /\ pc = "recent_query"
    /\ recent_queries' = recent_queries + 1
    /\ \/ /\ provider_error' = "recent"
          /\ Respond(500, FetchFailedMsg, None)
          /\ UNCHANGED hist_end
       \/ /\ hist_end' = RecentHistory(market)
          /\ UNCHANGED provider_error
          /\ IF hist_end' = <<>>
             THEN Respond(404, RecentMsg, None)
             ELSE Respond(200, "",
                          Quote(data.ticker, start_price, start_actual, hist_end'))
    /\ UNCHANGED <<op, data, market, start_queries, hist_start,
                   start_price, start_actual, creditedVars, accountVars,
                   reportVars>>

\* A request POST /api/calculate.
InitCalculate ==
    /\ op = "api_calculate"
    /\ pc = "call"
    /\ data \in [current_value : RequestValues, allocations : RequestLists]
    /\ status = 0 /\ error = "" /\ body = None
    /\ NoCreditedCall /\ NoAccountCall /\ NoFetch /\ NoReport

\* api_calculate, with the call of calculate_account_value it makes.  An
\* exception raised in the handler is answered with status 500.
ApiCalculate ==
    /\ op = "api_calculate"
    /\ pc = "call"
    /\ LET raw == Get(data, "current_value", Zero)
           list == Get(data, "allocations", PyList(<<>>)).items
           r == calculate_account_value(raw, list)
       IN  IF FloatRaises(raw)
           THEN /\ Respond(500, ServerErrorMsg, None)
                /\ UNCHANGED accountVars
           ELSE /\ current_value' = raw
                /\ allocations' = list
                /\ IF Rejects(raw)
                   THEN /\ Respond(400, CurrentValueMsg, None)
                        /\ UNCHANGED <<outcome, total_new, new_amounts,
                                       new_value, results>>
                   ELSE /\ outcome' = r.outcome
                        /\ total_new' = r.total_new
                        /\ new_amounts' = r.new_amounts
                        /\ new_value' = r.new_value
                        /\ results' = r.results
                        /\ IF r.outcome = "returned"
                           THEN Respond(200, "", CalculateBody(raw, r))
                           ELSE Respond(500, ServerErrorMsg, None)
    /\ UNCHANGED <<op, data, fetchVars, creditedVars, reportVars>>

\* A request POST /api/report.
InitReport ==
    /\ op = "api_report"
    /\ pc = "call"
    /\ data \in [current_value : ReportValues, new_value : ReportNewValues,
                 allocations : {Absent} \cup
                     {PyList(l) : l \in ReportLists(MaxRequestAllocs)}]
    /\ status = 0 /\ error = "" /\ body = None
    /\ NoCreditedCall /\ NoAccountCall /\ NoFetch /\ NoReport

\* api_report, with the call of generate_pdf_report it makes.  An exception
\* raised in the handler is answered with status 500.
ApiReport ==
    /\ op = "api_report"
    /\ pc = "call"
    /\ LET cv == Get(data, "current_value", Zero)
           nv == Get(data, "new_value", Zero)
           list == Get(data, "allocations", PyList(<<>>)).items
           r == generate_pdf_report(cv, nv, list)
       IN  IF FloatRaises(cv) \/ FloatRaises(nv)
           THEN /\ Respond(500, ServerErrorMsg, None)
                /\ current_value' = IF FloatRaises(cv) THEN current_value ELSE cv
                /\ UNCHANGED <<new_value, allocations, outcome, reportVars>>
           ELSE /\ current_value' = cv
                /\ new_value' = nv
                /\ allocations' = list
                /\ outcome' = r.outcome
                /\ elements' = r.elements
                /\ table_data' = r.table_data
                /\ IF r.outcome = "returned"
                   THEN Respond(200, "", Pdf(r))
                   ELSE Respond(500, ServerErrorMsg, None)
    /\ UNCHANGED <<op, data, total_new, new_amounts, results,
                   fetchVars, creditedVars>>

Init ==
    InitCredited \/ InitAccount \/ InitIndexReturn \/ InitCalculate \/ InitReport

Next ==
    \/ CallCreditedReturn
    \/ CallAccountValue
    \/ GetIndexReturn
    \/ StartQuery
    \/ RecentQuery
    \/ ApiCalculate
    \/ ApiReport

Spec == Init /\ [][Next]_vars

(***************************************************************************)
(* Properties of calculate_credited_return.                                *)
(***************************************************************************)
CreditedDone == op = "calculate_credited_return" /\ pc = "done"

\* The closed form max(0, min(cap, (index_return - spread) * par / 100)) rounded
\* to 4 decimals, a step being left out when Skip holds of its parameter.
ClosedForm(ir, cap, par, spread, Skip(_)) ==
    LET a == IF Skip(spread) THEN ir ELSE RSub(ir, spread)
        b == IF Skip(par) THEN a ELSE RDiv(RMul(a, par), Hundred)
        c == IF Skip(cap) THEN b ELSE RMin(cap, b)
    IN  Round(RMax(Zero, c), PctDecimals)

SkipAbsent(rate) == rate = None
SkipNotPositive(rate) == rate = None \/ ~ RLt(Zero, rate)

\* C2 (as amended): for index_return > 0 the result is the closed form
\* max(0, min(cap, (index_return - spread) * par / 100)) rounded to 4 decimals,
\* where a step is skipped when its parameter is absent or not greater than 0:
\* spread first, then participation, then cap, then floor.
C2_PipelineOrder ==
    (CreditedDone /\ index_return # None /\ RLt(Zero, index_return))
        => credited = ClosedForm(index_return, cap_rate, par_rate, spread_rate,
                                 SkipNotPositive)

\* C2 as stated: only an absent parameter skips its step.
C2_AsStated ==
    (CreditedDone /\ index_return # None /\ RLt(Zero, index_return))
        => credited = ClosedForm(index_return, cap_rate, par_rate, spread_rate,
                                 SkipAbsent)

\* All three steps act and the cap bounds the value scaled by participation:
\* (8.5 - 1) * 150 / 100 = 11.25 is capped to 6 (capping first would give 9).
C2_Witness ==
    /\ CreditedDone
    /\ index_return = Q(17, 2) /\ spread_rate = One
    /\ par_rate = Q(150, 1) /\ cap_rate = Q(6, 1)
    /\ credited = Q(6, 1)

\* C3: an index_return that is null or <= 0 yields exactly 0.0 whatever the
\* cap, participation and spread are.
C3_NoGainIsZero ==
    (CreditedDone /\ (index_return = None \/ RLe(index_return, Zero)))
        => credited = Zero

C3_Witness ==
    /\ CreditedDone
    /\ index_return = Q(-2, 1) /\ spread_rate = Q(-1, 1)
    /\ par_rate = Q(150, 1) /\ cap_rate = Q(-1, 1)
    /\ credited = Zero

\* C4 (as amended): when cap_rate > 0 and the value reaching the cap step
\* exceeds cap_rate, the result is cap_rate rounded to 4 decimals, which is
\* exactly cap_rate when cap_rate has at most 4 decimals.
C4_CapDominance ==
    (/\ CreditedDone
     /\ index_return # None /\ cap_rate # None
     /\ RLt(Zero, cap_rate)
     /\ RLt(cap_rate, PreCap(index_return, par_rate, spread_rate)))
        => credited = Round(cap_rate, PctDecimals)

\* C4 as stated: whenever the cap step is reached with a value that exceeds
\* cap_rate, the result is exactly cap_rate.
C4_AsStated ==
    (/\ CreditedDone
     /\ ~ NoGain(index_return)
     /\ ~ SpreadExhausted(SpreadStep(index_return, spread_rate), spread_rate)
     /\ cap_rate # None
     /\ RLt(cap_rate, PreCap(index_return, par_rate, spread_rate)))
        => credited = cap_rate

\* The scenario index_return = 8.5, cap = 6, par = 100, spread = 0.
C4_Witness ==
    /\ CreditedDone
    /\ index_return = Q(17, 2) /\ spread_rate = Zero
    /\ par_rate = Hundred /\ cap_rate = Q(6, 1)
    /\ credited = Q(6, 1)

SpreadBelowReturn ==
    /\ index_return # None
    /\ spread_rate # None => RLt(spread_rate, index_return)

\* C5 (as amended): with index_return, spread_rate and cap_rate fixed and
\* index_return > spread_rate, for participation rates 0 < p1 <= p2 the result
\* with p2 is never less than the result with p1.
C5_ParMonotone ==
    (CreditedDone /\ SpreadBelowReturn /\ par_rate # None)
        => \A p1 \in ParRates \ {None} :
              (RLt(Zero, p1) /\ RLe(p1, par_rate))
                  => RLe(calculate_credited_return(index_return, cap_rate, p1, spread_rate),
                         credited)

\* C5 as stated: for any two participation rates p1 <= p2.
C5_AsStated ==
    (CreditedDone /\ SpreadBelowReturn /\ par_rate # None)
        => \A p1 \in ParRates \ {None} :
              RLe(p1, par_rate)
                  => RLe(calculate_credited_return(index_return, cap_rate, p1, spread_rate),
                         credited)

\* Raising participation from 50 to 150 raises (8.5 - 1) * par / 100 from 3.75
\* to 11.25.
C5_Witness ==
    /\ CreditedDone
    /\ index_return = Q(17, 2) /\ spread_rate = One /\ cap_rate = None
    /\ par_rate = Q(150, 1)
    /\ credited = Q(45, 4)
    /\ calculate_credited_return(index_return, cap_rate, Q(50, 1), spread_rate) = Q(15, 4)

\* C6: whenever spread_rate >= index_return the result is exactly 0.0,
\* whatever par_rate and cap_rate are.
C6_SpreadExhaustion ==
    (/\ CreditedDone
     /\ index_return # None /\ spread_rate # None
     /\ RLe(index_return, spread_rate))
        => credited = Zero

\* The scenario index_return = 3.0, spread_rate = 4.0, here with a
\* participation above 100.
C6_Witness ==
    /\ CreditedDone
    /\ index_return = Q(3, 1) /\ spread_rate = Q(4, 1)
    /\ par_rate = Q(150, 1)
    /\ credited = Zero


(***************************************************************************)
(* Properties of calculate_account_value.                                  *)
(***************************************************************************)
AccountDone == op = "calculate_account_value" /\ pc = "done"
Returned == AccountDone /\ outcome = "returned"

IsFixed(alloc) == alloc.is_fixed = PyTrue

\* C1: the credited_return of every indexed (non-fixed) allocation in the
\* returned results is never negative, whatever index_return, cap_rate,
\* par_rate and spread_rate are (absent, negative, zero or positive); nor is
\* the value calculate_credited_return computes for it.
C1_CreditedNeverNegative ==
    /\ Returned =>
           \A i \in 1..Len(results) :
               ~ IsFixed(allocations[i]) => RLe(Zero, results[i].credited_return)
    /\ CreditedDone => RLe(Zero, credited)

\* An indexed allocation with a loss, a negative cap and a negative spread.
C1_Witness ==
    /\ Returned
    /\ Len(allocations) = 1
    /\ allocations[1].is_fixed = PyFalse
    /\ allocations[1].index_return = Q(-2, 1)
    /\ allocations[1].cap_rate = Q(-1, 1)
    /\ allocations[1].spread_rate = Q(-1, 1)
    /\ allocations[1].par_rate = Q(150, 1)
    /\ results[1].credited_return = Zero

\* The value of an optional numeric field, 0 when it is absent or null.
OrZero(v) == IF v = Absent \/ v = None THEN Zero ELSE v

\* C7: a fixed allocation is credited fixed_rate (0.0 when absent), to the
\* 4 decimals of the result, and new_amount is
\* alloc_amount * (1 + fixed_rate / 100), to 2 decimals; index_return,
\* cap_rate, par_rate and spread_rate play no part.
C7_FixedBypassesPipeline ==
    Returned =>
        \A i \in 1..Len(results) :
            IsFixed(allocations[i]) =>
                LET a == allocations[i]
                    rate == OrZero(a.fixed_rate)
                    amount == RDiv(RMul(current_value, OrZero(a.allocation_pct)), Hundred)
                IN  /\ results[i].credited_return = Round(rate, PctDecimals)
                    /\ results[i].new_amount =
                           Round(RAdd(amount, RDiv(RMul(amount, rate), Hundred)),
                                 MoneyDecimals)

\* The scenario fixed_rate = 2.5, weight = 50 on 50000, with index parameters
\* set on the same allocation.
C7_Witness ==
    /\ Returned
    /\ current_value = Q(50000, 1)
    /\ Len(allocations) = 1
    /\ allocations[1].is_fixed = PyTrue
    /\ allocations[1].fixed_rate = Q(5, 2)
    /\ allocations[1].allocation_pct = Q(50, 1)
    /\ allocations[1].index_return = Q(17, 2)
    /\ allocations[1].cap_rate = Q(6, 1)
    /\ allocations[1].par_rate = Q(150, 1)
    /\ allocations[1].spread_rate = Q(10, 1)
    /\ results[1].alloc_amount = Q(25000, 1)
    /\ results[1].credited_return = Q(5, 2)
    /\ results[1].new_amount = Q(25625, 1)

RECURSIVE SumSeq(_)
SumSeq(s) == IF s = <<>> THEN Zero ELSE RAdd(Head(s), SumSeq(Tail(s)))

Cent == Q(1, 100)

ReportedAmounts == [i \in 1..Len(results) |-> results[i].new_amount]

\* C8 (as amended): the sum of the per-allocation new_amount values, taken
\* before each is rounded to 2 decimals for its result, differs from the
\* returned new_value by at most 0.01.
C8_SumConsistency ==
    Returned =>
        /\ Len(new_amounts) = Len(allocations)
        /\ RLe(RAbs(RSub(SumSeq(new_amounts), new_value)), Cent)

\* C8 as stated: the sum of the new_amount values of the results differs from
\* new_value by at most 0.01.
C8_AsStated ==
    Returned => RLe(RAbs(RSub(SumSeq(ReportedAmounts), new_value)), Cent)

\* Four allocations of 254.444 each: new_value is 1017.78, the unrounded
\* amounts sum to 1017.776 and the reported ones to 1017.76.
C8_Witness ==
    /\ Returned
    /\ Len(allocations) = 4
    /\ new_value = Q(101778, 100)
    /\ SumSeq(new_amounts) = Q(1017776, 1000)
    /\ SumSeq(ReportedAmounts) = Q(101776, 100)

\* C9: calculate_account_value never raises, whichever fields of an
\* allocation are missing or null: every call returns.
C9_NeverRaises == AccountDone => outcome = "returned"

\* C10: the results hold one entry per allocation, in input order: the same
\* length, and result i carries the name and the weight of allocation i.
C10_OneResultPerAllocation ==
    Returned =>
        /\ Len(results) = Len(allocations)
        /\ \A i \in 1..Len(allocations) :
              /\ results[i].name =
                     (IF allocations[i].name = Absent THEN Str("") ELSE allocations[i].name)
              /\ results[i].allocation_pct = OrZero(allocations[i].allocation_pct)

\* Three differently named allocations, the middle one with no weight and a
\* credited return of 0.
C10_Witness ==
    /\ Returned
    /\ allocations = <<CappedIndex, SpreadOnly, FixedQuarter>>
    /\ Len(results) = 3
    /\ results[1].name = Str("S&P 500")
    /\ results[2].name = Str("Spread")
    /\ results[2].allocation_pct = Zero
    /\ results[2].credited_return = Zero
    /\ results[2].new_amount = Zero
    /\ results[3].name = Str("Fixed")

(***************************************************************************)
(* Zero and absent rates.                                                  *)
(***************************************************************************)
\* C15: for every index_return and every value of the other two rates, the
\* result with cap_rate = 0 is the result with cap_rate absent, and likewise
\* for par_rate and for spread_rate: a zero rate skips its step.
C15_ZeroIsAbsent ==
    CreditedDone =>
        /\ cap_rate = Zero =>
               credited = calculate_credited_return(index_return, None, par_rate, spread_rate)
        /\ par_rate = Zero =>
               credited = calculate_credited_return(index_return, cap_rate, None, spread_rate)
        /\ spread_rate = Zero =>
               credited = calculate_credited_return(index_return, cap_rate, par_rate, None)

\* All three rates are 0 and the gain of 8.5 is credited whole: neither
\* clamped to 0 by the cap nor multiplied by 0.
C15_Witness ==
    /\ CreditedDone
    /\ index_return = Q(17, 2)
    /\ cap_rate = Zero /\ par_rate = Zero /\ spread_rate = Zero
    /\ credited = Q(17, 2)
    /\ calculate_credited_return(index_return, None, None, None) = Q(17, 2)

(***************************************************************************)
(* Properties of the index-return request.                                 *)
(***************************************************************************)
IndexDone == op = "get_index_return" /\ pc = "done"

IsMissing(v) == v = Absent \/ v = None \/ v = Str("")

\* The trading days of the provider from start_date - 10 days to start_date.
DaysToStart ==
    LET start == ToOrdinal(data.start_date.ymd[1], data.start_date.ymd[2],
                           data.start_date.ymd[3])
    IN  {x \in market : start - 10 <= x /\ x <= start}

LatestDay(days) == CHOOSE x \in days : \A y \in days : y <= x

QueriesAnswered ==
    ~ IsMissing(data.ticker) /\ Parses(data.start_date) /\ provider_error = ""

\* C12: the request ends with one status per outcome: 400 when ticker or
\* start_date is missing, the provider not queried; 404 with the start-date
\* message when the start window has no rows, the recent query not issued;
\* 404 with the other message when the start window has rows and the recent
\* query none; 500 when the provider raises; 200 with a quote only when both
\* queries returned rows.  Each query is made at most once.
C12_StatusPerOutcome ==
    /\ op = "get_index_return" => start_queries <= 1 /\ recent_queries <= 1
    /\ IndexDone =>
        /\ status \in {200, 400, 404, 500}
        /\ (IsMissing(data.ticker) \/ IsMissing(data.start_date))
               => status = 400 /\ start_queries = 0 /\ recent_queries = 0
        /\ provider_error # "" => status = 500
        /\ (QueriesAnswered /\ DaysToStart = {})
               => status = 404 /\ error = StartMsg /\ recent_queries = 0
        /\ (QueriesAnswered /\ DaysToStart # {} /\ hist_end = <<>>)
               => status = 404 /\ error = RecentMsg /\ error # StartMsg
        /\ status = 200
               => /\ start_queries = 1 /\ recent_queries = 1
                  /\ hist_start # <<>> /\ hist_end # <<>>
                  /\ body # None

\* The start window has rows and the recent query has none.
C12_Witness ==
    /\ IndexDone
    /\ status = 404 /\ error = RecentMsg
    /\ start_queries = 1 /\ recent_queries = 1
    /\ Len(hist_start) = 2 /\ hist_end = <<>>

\* C14: once the start window is answered, the start price is the close of
\* the latest row dated from start_date - 10 days to start_date, start_date
\* included and no later day used, and the start-date error is not returned
\* when there is such a row.
C14_StartPriceResolution ==
    (/\ op = "get_index_return"
     /\ start_queries = 1 /\ provider_error # "start"
     /\ DaysToStart # {})
        => /\ start_price = ClosePrice(LatestDay(DaysToStart))
           /\ start_actual = strftime(LatestDay(DaysToStart))
           /\ ~ (status = 404 /\ error = StartMsg)
           /\ status = 200
                  => /\ body.start_date = strftime(LatestDay(DaysToStart))
                     /\ body.start_price = ClosePrice(LatestDay(DaysToStart))

\* The scenario start_date = 2023-01-15, a Sunday: the quote starts from the
\* close of Friday 2023-01-13, with rows before it and after start_date.
C14_Witness ==
    /\ IndexDone
    /\ data.start_date = DateStr(2023, 1, 15)
    /\ {Day(2023, 1, 5), Day(2023, 1, 13), Day(2023, 1, 17), Day(2023, 3, 1)}
           \subseteq market
    /\ status = 200
    /\ body.start_date = DateStr(2023, 1, 13)
    /\ body.start_price = Q(399909, 100)
    /\ body.end_date = DateStr(2023, 3, 1)
    /\ body.index_return = Q(-11928, 10000)

(***************************************************************************)
(* api_calculate.                                                          *)
(***************************************************************************)
CalculateDone == op = "api_calculate" /\ pc = "done"

\* C13: a calculate request whose current_value is missing or <= 0 is answered
\* with status 400 and calculate_account_value is not called; a request with
\* current_value > 0 is answered with new_value, the per-allocation results
\* and total_return_pct = (new_value - current_value) / current_value * 100
\* rounded to 4 decimals.
C13_AsStated ==
    CalculateDone =>
        LET cv == data.current_value
        IN  /\ (cv = Absent \/ (cv.k = "num" /\ RLe(cv, Zero))) =>
                   status = 400 /\ outcome = "none"
            /\ (cv.k = "num" /\ RLt(Zero, cv)) =>
                   /\ status = 200
                   /\ outcome = "returned"
                   /\ body.new_value = new_value
                   /\ body.allocations = results
                   /\ body.total_return_pct =
                          Round(RDiv(RMul(RSub(new_value, cv), Hundred), cv),
                                PctDecimals)

(***************************************************************************)
(* api_report.                                                             *)
(***************************************************************************)
ReportDone == op = "api_report" /\ pc = "done"

RequiredKeys == {"is_fixed", "name", "allocation_pct", "new_amount"}

\* The payload lacks current_value, new_value, or a required key of one of
\* its allocations.
LacksRequiredField ==
    \/ data.current_value = Absent
    \/ data.new_value = Absent
    \/ /\ data.allocations # Absent
       /\ \E i \in 1..Len(data.allocations.items) :
             \E key \in RequiredKeys : data.allocations.items[i][key] = Absent

\* C11: a report request whose payload lacks a required field (current_value,
\* new_value, or is_fixed, name, allocation_pct or new_amount of an
\* allocation) is rejected with a client error before generate_pdf_report
\* has appended anything to the document.
C11_FailsClosed ==
    ReportDone /\ LacksRequiredField =>
        status \in 400..499 /\ elements = <<>>

=============================================================================
